---------------------------- MODULE Spec2Model ----------------------------
(***************************************************************************)
(* Model of app.py, the bulk Google Trends fetcher: main() loads the       *)
(* queries of an uploaded CSV, fetch_trends_data() splits them in chunks   *)
(* of 5, asks the process-wide pytrends client for each chunk, collects    *)
(* the tables of the chunks that did not raise, merges them and main()     *)
(* offers the merged table for download.  fetch_trends_data is wrapped in  *)
(* st.cache_data, a memo table keyed by its arguments.                     *)
(*                                                                         *)
(* A string is a sequence of characters, a table is the sequence of its    *)
(* columns (the rows, the shared date index, play no part here).           *)
(***************************************************************************)
EXTENDS Integers, Sequences, FiniteSets, TLC

\* ------------------------------------------------------------------ bounds
MaxRows == 6        \* rows of a file uploaded to the pipeline
MaxRuns == 3        \* executions of main() in one browser session
MaxLen == 11        \* length of a query list handed to the Batcher alone
MaxCells == 2       \* rows of a file handed to the Query Loader alone
MaxCellLen == 3     \* characters of one cell of such a file
MaxConcRows == 1    \* rows of a file when two sessions run side by side

\* --------------------------------------------------------------- constants
chunk_size == 5

Sessions == {1, 2}
Whitespace == {" "}
NaN == <<"NaN">>                \* pandas' missing value
NaValues == {<<>>}              \* the cell texts read_csv turns into NaN
isPartial == <<"isPartial">>    \* name of the transient column
NoFile == <<<<"NoFile">>>>      \* uploaded_file is None
TimeRanges == {12, 24}          \* the options of the radio

SeqsUpTo(S, n) == UNION {[1..k -> S] : k \in 0..n}

\* Row k of a file uploaded to the pipeline is empty, a query of its own, or
\* the first row's query again, padded: every list of distinct queries, of
\* repeated queries and of missing cells is among them.
Letters == <<"a", "b", "c", "d", "e", "f", "g", "h">>
PipelineCells(k) == {<<>>, <<Letters[k]>>, <<" ", Letters[1]>>}
RECURSIVE FilesOfLen(_)
FilesOfLen(n) ==
    IF n = 0 THEN {<<>>}
    ELSE {Append(f, c) : f \in FilesOfLen(n - 1), c \in PipelineCells(n)}
PipelineFiles == UNION {FilesOfLen(n) : n \in 0..MaxRows}
LoaderCells == SeqsUpTo({" ", "a"}, MaxCellLen)
LoaderFiles == SeqsUpTo(LoaderCells, MaxCells)
BatcherInputs == SeqsUpTo({<<"a">>, <<"b">>}, MaxLen)
ConcFiles == SeqsUpTo({<<"a">>, <<"b">>}, MaxConcRows) \ {<<>>}

VARIABLES
    uploaded_file,  \* [s]: the rows' first cells, or NoFile
    time_range,     \* [s]: the radio's value
    queries,        \* [s]: main's queries of the last execution
    page,           \* [s]: what the last execution of main rendered
    export,         \* [s]: the download control of the page
    pc,             \* [s]: where the session's script stands
    query_chunks,   \* [s]: fetch_trends_data's locals
    i,
    all_data,
    final_df,       \* [s]: what fetch_trends_data returned to main
    pytrends,       \* the module-level client: the payload last built
    cache,          \* st.cache_data's table of fetch_trends_data
    reports,        \* [s]: history, the progress reports of this execution
    attempts,       \* [s]: history, the chunks whose iteration began
    outcome,        \* [s]: history, "ok" or "fail" per finished chunk
    calls,          \* [s]: history, the components this execution called
    executed,       \* [s]: history, the body of fetch_trends_data ran
    retry,          \* [s]: history, the click repeats a run that had failures
    failedKeys,     \* history, arguments of the runs that had a failed chunk
    runs            \* [s]: executions of main so far

mainVars == <<uploaded_file, time_range, queries, page, export>>
frameVars == <<query_chunks, i, all_data, final_df>>
histVars == <<reports, attempts, outcome, calls, executed, retry>>
vars == <<mainVars, pc, frameVars, pytrends, cache, histVars, failedKeys, runs>>

\* ------------------------------------------------------------ Query Loader
RECURSIVE LStrip(_)
LStrip(str) ==
    IF str # <<>> /\ Head(str) \in Whitespace THEN LStrip(Tail(str)) ELSE str

RECURSIVE RStrip(_)
RStrip(str) ==
    IF str # <<>> /\ str[Len(str)] \in Whitespace
    THEN RStrip(SubSeq(str, 1, Len(str) - 1))
    ELSE str

Strip(str) == RStrip(LStrip(str))

\* pd.read_csv raises EmptyDataError on a file with no rows
ReadFails(file) == file = <<>>

\* data.iloc[:, 0] of pd.read_csv(uploaded_file, header=None)
FirstColumn(file) ==
    [k \in 1..Len(file) |-> IF file[k] \in NaValues THEN NaN ELSE file[k]]

DropNa(col) == SelectSeq(col, LAMBDA v : v # NaN)

StripAll(col) == [k \in 1..Len(col) |-> Strip(col[k])]

LoadQueries(file) == StripAll(DropNa(FirstColumn(file)))

\* mutant: the emptiness test is lost
NeverEmptyInput(qs) == FALSE

EmptyInput(qs) == qs = <<>>

\* ----------------------------------------------------------------- Batcher
Min(a, b) == IF a < b THEN a ELSE b

\* list(range(start, stop, step))
RECURSIVE Range(_, _, _)
Range(start, stop, step) ==
    IF start >= stop THEN <<>> ELSE <<start>> \o Range(start + step, stop, step)

\* seq[a:b], 0-based, end clamped to the length
Slice(seq, a, b) == SubSeq(seq, a + 1, Min(b, Len(seq)))

\* mutant: the range stops at the last full chunk
QueryChunksNoTail(qs) ==
    LET starts == Range(0, Len(qs) - (Len(qs) % chunk_size), chunk_size)
    IN  [k \in 1..Len(starts) |-> Slice(qs, starts[k], starts[k] + chunk_size)]

QueryChunks(qs) ==
    LET starts == Range(0, Len(qs), chunk_size)
    IN  [k \in 1..Len(starts) |-> Slice(qs, starts[k], starts[k] + chunk_size)]

\* ------------------------------------------------------------------ client
GetTimeframeString(months) ==
    IF months = 12 THEN "today 12-m"
    ELSE IF months = 24 THEN "today 24-m"
    ELSE "today 12-m"

Payload(chunk, timeframe) == [kw_list |-> chunk, timeframe |-> timeframe]

NoPayload == Payload(<<>>, "")

\* The table interest_over_time returns for the payload the client holds: one
\* column per keyword and, unless the provider left it out, the partial flag.
InterestTable(payload, batch, partial) ==
    [p \in 1..Len(payload.kw_list) |->
        [name |-> payload.kw_list[p], batch |-> batch, pos |-> p]]
    \o (IF partial THEN <<[name |-> isPartial, batch |-> batch, pos |-> 0]>>
        ELSE <<>>)

Names(cols) == [k \in 1..Len(cols) |-> cols[k].name]

DropPartial(data) ==
    IF \E k \in 1..Len(data) : data[k].name = isPartial
    THEN SelectSeq(data, LAMBDA c : c.name # isPartial)
    ELSE data

\* mutant: the bar counts from 0
ProgressArgsFromZero(idx, n, chunk) ==
    [completed |-> idx, total |-> n, label |-> chunk]

\* progress bar value (numerator, denominator) and status text of a chunk
ProgressArgs(idx, n, chunk) ==
    [completed |-> idx + 1, total |-> n, label |-> chunk]

\* mutant: break instead of continue
AbortOnException(idx, n) == n

\* except ...: st.error(...); continue
OnException(idx, n) == idx + 1

\* ------------------------------------------------------------------ Merger
\* mutant: the tables are joined last to first
RECURSIVE ConcatReversed(_)
ConcatReversed(tables) ==
    IF tables = <<>> THEN <<>>
    ELSE ConcatReversed(Tail(tables)) \o Head(tables)

RECURSIVE Concat(_)
Concat(tables) ==
    IF tables = <<>> THEN <<>> ELSE Head(tables) \o Concat(Tail(tables))

\* mutant: duplicated(keep='last')
DuplicatedKeepLast(cols) ==
    [k \in 1..Len(cols) |->
        \E j \in (k + 1)..Len(cols) : cols[j].name = cols[k].name]

\* final_df.columns.duplicated(): TRUE at every occurrence but the first
Duplicated(cols) ==
    [k \in 1..Len(cols) |-> \E j \in 1..(k - 1) : cols[j].name = cols[k].name]

RECURSIVE KeepFirst(_, _)
KeepFirst(cols, n) ==
    IF n = 0 THEN <<>>
    ELSE KeepFirst(cols, n - 1)
         \o (IF Duplicated(cols)[n] THEN <<>> ELSE <<cols[n]>>)

DropDuplicateColumns(cols) == KeepFirst(cols, Len(cols))

Unset == [kind |-> "unset", cols |-> <<>>]
None == [kind |-> "none", cols |-> <<>>]
DataFrame(cols) == [kind |-> "frame", cols |-> cols]

\* mutant: no sentinel for an empty list
MergeAlwaysFrame(tables) == DataFrame(DropDuplicateColumns(Concat(tables)))

Merge(tables) ==
    IF tables # <<>> THEN DataFrame(DropDuplicateColumns(Concat(tables)))
    ELSE None

\* ------------------------------------------------------------------ Export
NoExport == [present |-> FALSE, csv |-> <<>>, months |-> 0]

ToCsv(df) == <<<<"date">>>> \o Names(df.cols)

ExportOf(df, months) ==
    IF df.kind = "frame"
    THEN [present |-> TRUE, csv |-> ToCsv(df), months |-> months]
    ELSE NoExport

PageAfterFetch(df) == IF df.kind = "frame" THEN "results" ELSE "no_data"

\* -------------------------------------------------------------------- main
PageAfterLoad(file) ==
    IF file = NoFile THEN "waiting"
    ELSE IF ReadFails(file) THEN "file_error"
    ELSE IF EmptyInput(LoadQueries(file)) THEN "empty_input"
    ELSE "loaded"

QueriesAfterLoad(file) ==
    IF file = NoFile \/ ReadFails(file) THEN <<>> ELSE LoadQueries(file)

ButtonRendered(s) == page[s] \in {"loaded", "results", "no_data"}

Key(s) == <<queries[s], time_range[s]>>

InBody(s) == pc[s] \in {"loop", "build", "request"}

\* One execution of main() begins: everything the previous one rendered or
\* computed is gone, the file is read again.
Rerun(s, file, months) ==
    /\ runs[s] < MaxRuns
    /\ runs' = [runs EXCEPT ![s] = @ + 1]
    /\ uploaded_file' = [uploaded_file EXCEPT ![s] = file]
    /\ time_range' = [time_range EXCEPT ![s] = months]
    /\ queries' = [queries EXCEPT ![s] = QueriesAfterLoad(file)]
    /\ export' = [export EXCEPT ![s] = NoExport]
    /\ query_chunks' = [query_chunks EXCEPT ![s] = <<>>]
    /\ i' = [i EXCEPT ![s] = 0]
    /\ all_data' = [all_data EXCEPT ![s] = <<>>]
    /\ final_df' = [final_df EXCEPT ![s] = Unset]
    /\ reports' = [reports EXCEPT ![s] = <<>>]
    /\ attempts' = [attempts EXCEPT ![s] = <<>>]
    /\ outcome' = [outcome EXCEPT ![s] = <<>>]
    /\ calls' = [calls EXCEPT ![s] = {}]
    /\ executed' = [executed EXCEPT ![s] = FALSE]

\* the user uploads one of `files`
Upload(s, files) ==
    /\ pc[s] = "idle"
    /\ uploaded_file[s] = NoFile
    /\ \E file \in files :
          /\ Rerun(s, file, time_range[s])
          /\ page' = [page EXCEPT ![s] = PageAfterLoad(file)]
    /\ retry' = [retry EXCEPT ![s] = FALSE]
    /\ UNCHANGED <<pc, pytrends, cache, failedKeys>>

SelectTimeRange(s) ==
    /\ pc[s] = "idle"
    /\ \E months \in TimeRanges \ {time_range[s]} :
          Rerun(s, uploaded_file[s], months)
    /\ page' = [page EXCEPT ![s] = PageAfterLoad(uploaded_file[s])]
    /\ retry' = [retry EXCEPT ![s] = FALSE]
    /\ UNCHANGED <<pc, pytrends, cache, failedKeys>>

\* the click on "Start Fetching Google Trends Data": main runs up to the call
ClickStart(s) ==
    /\ pc[s] = "idle"
    /\ ButtonRendered(s)
    /\ Rerun(s, uploaded_file[s], time_range[s])
    /\ page' = [page EXCEPT ![s] = "fetching"]
    /\ retry' = [retry EXCEPT ![s] = Key(s) \in failedKeys]
    /\ pc' = [pc EXCEPT ![s] = "call"]
    /\ UNCHANGED <<pytrends, cache, failedKeys>>

\* main after fetch_trends_data returned df
Returned(s, df) ==
    /\ final_df' = [final_df EXCEPT ![s] = df]
    /\ page' = [page EXCEPT ![s] = PageAfterFetch(df)]
    /\ export' = [export EXCEPT ![s] = ExportOf(df, time_range[s])]
    /\ calls' = [calls EXCEPT ![s] =
                    @ \cup (IF df.kind = "frame" THEN {"export"} ELSE {})
                      \cup (IF pc[s] = "loop" /\ all_data[s] # <<>>
                            THEN {"merger"} ELSE {})]
    /\ pc' = [pc EXCEPT ![s] = "idle"]

\* ------------------------------------------------------- fetch_trends_data
\* st.cache_data holds the value of these arguments: the body does not run
CacheHit(s) ==
    /\ pc[s] = "call"
    /\ Key(s) \in DOMAIN cache
    /\ Returned(s, cache[Key(s)])
    /\ UNCHANGED <<uploaded_file, time_range, queries, query_chunks, i,
                   all_data, pytrends, cache, reports, attempts, outcome,
                   executed, retry, failedKeys, runs>>

\* no value yet: the body runs up to the loop.  st.cache_data computes one
\* key in one thread at a time.
CacheMiss(s) ==
    /\ pc[s] = "call"
    /\ Key(s) \notin DOMAIN cache
    /\ \A t \in Sessions \ {s} : ~(InBody(t) /\ Key(t) = Key(s))
    /\ query_chunks' = [query_chunks EXCEPT ![s] = QueryChunks(queries[s])]
    /\ all_data' = [all_data EXCEPT ![s] = <<>>]
    /\ i' = [i EXCEPT ![s] = 0]
    /\ executed' = [executed EXCEPT ![s] = TRUE]
    /\ calls' = [calls EXCEPT ![s] = @ \cup {"batcher"}]
    /\ pc' = [pc EXCEPT ![s] = "loop"]
    /\ UNCHANGED <<mainVars, final_df, pytrends, cache, reports, attempts,
                   outcome, retry, failedKeys, runs>>

\* an iteration begins: progress bar and status text
LoopReport(s) ==
    /\ pc[s] = "loop"
    /\ i[s] < Len(query_chunks[s])
    /\ attempts' = [attempts EXCEPT ![s] = Append(@, i[s] + 1)]
    /\ reports' = [reports EXCEPT ![s] =
          Append(@, [args |-> ProgressArgs(i[s], Len(query_chunks[s]),
                                           query_chunks[s][i[s] + 1]),
                     finished |-> Len(outcome[s])])]
    /\ calls' = [calls EXCEPT ![s] = @ \cup {"progress"}]
    /\ pc' = [pc EXCEPT ![s] = "build"]
    /\ UNCHANGED <<mainVars, frameVars, pytrends, cache, outcome, executed,
                   retry, failedKeys, runs>>

Failed(s) ==
    /\ outcome' = [outcome EXCEPT ![s] = Append(@, "fail")]
    /\ i' = [i EXCEPT ![s] = OnException(@, Len(query_chunks[s]))]
    /\ pc' = [pc EXCEPT ![s] = "loop"]
    /\ UNCHANGED all_data

\* pytrends.build_payload(kw_list=chunk, timeframe=timeframe, ...)
BuildPayload(s) ==
    /\ pc[s] = "build"
    /\ pytrends' = Payload(query_chunks[s][i[s] + 1],
                           GetTimeframeString(time_range[s]))
    /\ calls' = [calls EXCEPT ![s] = @ \cup {"adapter"}]
    /\ \/ /\ pc' = [pc EXCEPT ![s] = "request"]
          /\ UNCHANGED <<i, all_data, outcome>>
       \/ Failed(s)
    /\ UNCHANGED <<mainVars, query_chunks, final_df, cache, reports, attempts,
                   executed, retry, failedKeys, runs>>

\* data = pytrends.interest_over_time(), drop isPartial, all_data.append(data)
InterestOverTime(s) ==
    /\ pc[s] = "request"
    /\ \/ \E partial \in BOOLEAN :
             /\ all_data' = [all_data EXCEPT ![s] = Append(@,
                   DropPartial(InterestTable(pytrends, i[s] + 1, partial)))]
             /\ outcome' = [outcome EXCEPT ![s] = Append(@, "ok")]
             /\ i' = [i EXCEPT ![s] = @ + 1]
             /\ pc' = [pc EXCEPT ![s] = "loop"]
       \/ Failed(s)
    /\ UNCHANGED <<mainVars, query_chunks, final_df, pytrends, cache, reports,
                   attempts, calls, executed, retry, failedKeys, runs>>

\* the loop is over: merge, remember the value, return to main
Return(s) ==
    /\ pc[s] = "loop"
    /\ i[s] >= Len(query_chunks[s])
    /\ LET df == Merge(all_data[s]) IN
          /\ cache' = [k \in DOMAIN cache \cup {Key(s)} |->
                          IF k = Key(s) THEN df ELSE cache[k]]
          /\ Returned(s, df)
    /\ failedKeys' = IF \E k \in 1..Len(outcome[s]) : outcome[s][k] = "fail"
                     THEN failedKeys \cup {Key(s)} ELSE failedKeys
    /\ UNCHANGED <<uploaded_file, time_range, queries, query_chunks, i,
                   all_data, pytrends, reports, attempts, outcome, executed,
                   retry, runs>>

\* ---------------------------------------------------------- specifications
\* Every session has `file` uploaded and main executed `ran` times; session s
\* stands at `at` with the queries qs.
Start(file, qs, at, shown, ran) ==
    /\ uploaded_file = [s \in Sessions |-> file[s]]
    /\ queries = [s \in Sessions |-> qs[s]]
    /\ time_range = [s \in Sessions |-> 12]
    /\ page = [s \in Sessions |-> shown[s]]
    /\ export = [s \in Sessions |-> NoExport]
    /\ pc = [s \in Sessions |-> at[s]]
    /\ query_chunks = [s \in Sessions |-> <<>>]
    /\ i = [s \in Sessions |-> 0]
    /\ all_data = [s \in Sessions |-> <<>>]
    /\ final_df = [s \in Sessions |-> Unset]
    /\ pytrends = NoPayload
    /\ cache = <<>>
    /\ reports = [s \in Sessions |-> <<>>]
    /\ attempts = [s \in Sessions |-> <<>>]
    /\ outcome = [s \in Sessions |-> <<>>]
    /\ calls = [s \in Sessions |-> {}]
    /\ executed = [s \in Sessions |-> FALSE]
    /\ retry = [s \in Sessions |-> FALSE]
    /\ failedKeys = {}
    /\ runs = [s \in Sessions |-> ran[s]]

Everywhere(v) == [s \in Sessions |-> v]

Step(s) ==
    \/ SelectTimeRange(s)
    \/ ClickStart(s)
    \/ CacheHit(s)
    \/ CacheMiss(s)
    \/ LoopReport(s)
    \/ BuildPayload(s)
    \/ InterestOverTime(s)
    \/ Return(s)

\* One browser session, nothing uploaded yet.
Init ==
    Start(Everywhere(NoFile), Everywhere(<<>>), Everywhere("idle"),
          Everywhere("waiting"), Everywhere(0))

Next ==
    \/ Upload(1, PipelineFiles)
    \/ Step(1)

Spec == Init /\ [][Next]_vars

\* The Query Loader alone: any file of any cells is uploaded.
NextLoader == Upload(1, LoaderFiles)

SpecLoader == Init /\ [][NextLoader]_vars

\* The Batcher alone: fetch_trends_data is entered with any list of queries.
InitBatcher ==
    \E qs \in BatcherInputs :
       Start(Everywhere(NoFile), [Everywhere(<<>>) EXCEPT ![1] = qs],
             [Everywhere("idle") EXCEPT ![1] = "call"],
             [Everywhere("waiting") EXCEPT ![1] = "fetching"],
             [Everywhere(0) EXCEPT ![1] = 1])

NextBatcher == CacheMiss(1)

SpecBatcher == InitBatcher /\ [][NextBatcher]_vars

\* Two browser sessions of one server process, each with its file loaded.
InitConc ==
    \E file \in [Sessions -> ConcFiles] :
       Start(file, [s \in Sessions |-> LoadQueries(file[s])],
             Everywhere("idle"), Everywhere("loaded"), Everywhere(1))

NextConc == \E s \in Sessions : Step(s)

SpecConc == InitConc /\ [][NextConc]_vars
\* ------------------------------------------------------------------ claims
Done(s) == pc[s] = "idle" /\ executed[s]

AllFailed(s) == \A k \in 1..Len(outcome[s]) : outcome[s][k] = "fail"

AllOk(s) == \A k \in 1..Len(outcome[s]) : outcome[s][k] = "ok"

\* the numbers of the chunks that succeeded, ascending
OkBatches(s) ==
    SelectSeq([k \in 1..Len(outcome[s]) |-> k],
              LAMBDA k : outcome[s][k] = "ok")

AllDistinct(seq) ==
    \A a, b \in 1..Len(seq) : a # b => seq[a] # seq[b]

\* the columns of the first n tables, table after table
RECURSIVE Joined(_, _)
Joined(tables, n) ==
    IF n = 0 THEN <<>> ELSE Joined(tables, n - 1) \o tables[n]

Collected(s) == Joined(all_data[s], Len(all_data[s]))

\* index of the first column of cols named nm
FirstNamed(cols, nm) ==
    CHOOSE j \in 1..Len(cols) :
        /\ cols[j].name = nm
        /\ \A h \in 1..(j - 1) : cols[h].name # nm

CeilDiv(a, b) == (a + b - 1) \div b

\* C1: a list of L queries is split into ceil(L/5) chunks, each of 1 to 5
\* queries, all but the last of exactly 5, and the chunks read in order are
\* the list itself.
C1_Batcher ==
    \A s \in Sessions : executed[s] =>
        LET qs == queries[s]
            ch == query_chunks[s]
        IN  /\ Len(ch) = CeilDiv(Len(qs), chunk_size)
            /\ \A k \in 1..Len(ch) : Len(ch[k]) \in 1..chunk_size
            /\ \A k \in 1..(Len(ch) - 1) : Len(ch[k]) = chunk_size
            /\ \A x \in 1..Len(qs) :
                  LET k == ((x - 1) \div chunk_size) + 1
                      p == ((x - 1) % chunk_size) + 1
                  IN  k <= Len(ch) /\ p <= Len(ch[k]) /\ ch[k][p] = qs[x]
            /\ Len(qs) = (IF ch = <<>> THEN 0
                          ELSE (Len(ch) - 1) * chunk_size + Len(ch[Len(ch)]))

C1_Witness ==
    /\ executed[1]
    /\ Len(queries[1]) > 2 * chunk_size
    /\ Len(query_chunks[1]) = 3
    /\ Len(query_chunks[1][3]) < chunk_size

\* C2: the iterations begin for chunk 1, 2, ... in order, each once, whatever
\* failed before; the result list holds exactly the tables of the chunks that
\* succeeded, in order, and when the run has returned every chunk was
\* attempted and no column of the result comes from a failed chunk.
C2_PartialSuccess ==
    \A s \in Sessions : executed[s] =>
        LET ok == OkBatches(s) IN
        /\ attempts[s] = [k \in 1..Len(attempts[s]) |-> k]
        /\ Len(all_data[s]) = Len(ok)
        /\ \A m \in 1..Len(all_data[s]) :
              all_data[s][m] =
                 [p \in 1..Len(query_chunks[s][ok[m]]) |->
                     [name |-> query_chunks[s][ok[m]][p],
                      batch |-> ok[m], pos |-> p]]
        /\ Done(s) =>
              /\ Len(attempts[s]) = Len(query_chunks[s])
              /\ Len(outcome[s]) = Len(query_chunks[s])
              /\ \A c \in 1..Len(final_df[s].cols) :
                    outcome[s][final_df[s].cols[c].batch] = "ok"

C2_Witness ==
    /\ Done(1)
    /\ outcome[1] = <<"fail", "ok">>
    /\ Len(all_data[1]) = 1
    /\ final_df[1].kind = "frame"

\* C3: while every chunk of a run over a non-empty list has failed nothing is
\* exported, and when such a run has returned its value is None and the page
\* shows the "no data" warning without a download control.
C3_NoData ==
    \A s \in Sessions : (executed[s] /\ queries[s] # <<>> /\ AllFailed(s)) =>
        /\ export[s] = NoExport
        /\ "export" \notin calls[s]
        /\ Done(s) => final_df[s] = None /\ page[s] = "no_data"

C3_Witness ==
    /\ Done(1)
    /\ Len(outcome[1]) = 2
    /\ AllFailed(1)
    /\ page[1] = "no_data"

\* C4: a file that reads but holds no query leaves the page with the empty
\* input error: no start button, no call of the Batcher, the client, the
\* progress bar, the Merger or the export, however often main runs again.
C4_EmptyInput ==
    \A s \in Sessions :
        (/\ uploaded_file[s] # NoFile
         /\ ~ReadFails(uploaded_file[s])
         /\ LoadQueries(uploaded_file[s]) = <<>>) =>
            /\ page[s] = "empty_input"
            /\ ~ButtonRendered(s)
            /\ pc[s] = "idle"
            /\ calls[s] = {}
            /\ ~executed[s]
            /\ query_chunks[s] = <<>> /\ reports[s] = <<>>
            /\ final_df[s] = Unset
            /\ export[s] = NoExport

C4_Witness ==
    /\ uploaded_file[1] = <<<<>>, <<>>>>
    /\ page[1] = "empty_input"
    /\ runs[1] >= 2

\* C5 (as claimed): every loaded query is non-empty and has no whitespace at
\* either end.
C5_TrimmedNonEmpty ==
    \A s \in Sessions : \A k \in 1..Len(queries[s]) :
        LET q == queries[s][k] IN
        /\ q # <<>>
        /\ Head(q) \notin Whitespace
        /\ q[Len(q)] \notin Whitespace

\* C6 (as claimed): when the report "k of N" is made, k chunks have finished.
C6_ReportAfterFetch ==
    \A s \in Sessions : \A j \in 1..Len(reports[s]) :
        reports[s][j].finished = reports[s][j].args.completed

\* C6 (amended): the report of a chunk is made once, when its iteration
\* begins and before its fetch: the j-th report says "j of N" for chunk j
\* while j - 1 chunks have finished, and a returned run made N reports.
C6_ReportBeforeFetch ==
    \A s \in Sessions : executed[s] =>
        /\ \A j \in 1..Len(reports[s]) :
              /\ reports[s][j].args.completed = j
              /\ reports[s][j].args.total = Len(query_chunks[s])
              /\ reports[s][j].args.label = query_chunks[s][j]
              /\ reports[s][j].finished = j - 1
        /\ pc[s] \in {"build", "request"} =>
              Len(reports[s]) = i[s] + 1 /\ Len(outcome[s]) = i[s]
        /\ pc[s] = "loop" => Len(reports[s]) = i[s] /\ Len(outcome[s]) = i[s]
        /\ Done(s) => Len(reports[s]) = Len(query_chunks[s])

C6_Witness ==
    /\ pc[1] = "request"
    /\ Len(reports[1]) = 2
    /\ Len(outcome[1]) = 1

\* C7 (as claimed): a click that repeats a run which had a failed chunk runs
\* the fetches again.
C7_RetryFetchesAgain ==
    \A s \in Sessions :
        (pc[s] = "idle" /\ page[s] \in {"results", "no_data"} /\ retry[s])
            => executed[s]

\* C8: the returned table has no two columns of one name; of the collected
\* columns it keeps, for every name, the first one, in the collected order.
C8_FirstOccurrence ==
    \A s \in Sessions : final_df[s].kind = "frame" =>
        LET res == final_df[s].cols
            cat == Collected(s)
        IN  /\ AllDistinct(Names(res))
            /\ Done(s) =>
                  /\ \A k \in 1..Len(cat) : \E m \in 1..Len(res) :
                        res[m] = cat[FirstNamed(cat, cat[k].name)]
                  /\ \A m \in 1..Len(res) : \E k \in 1..Len(cat) :
                        res[m] = cat[k]
                  /\ \A m, n \in 1..Len(res) : m < n =>
                        FirstNamed(cat, res[m].name)
                           < FirstNamed(cat, res[n].name)

C8_Witness ==
    /\ Done(1)
    /\ final_df[1].kind = "frame"
    /\ Len(all_data[1]) = 2
    /\ \E p \in 1..Len(all_data[1][1]) : \E q \in 1..Len(all_data[1][2]) :
          all_data[1][1][p].name = all_data[1][2][q].name
    /\ \E p, q \in 1..Len(all_data[1][1]) :
          p # q /\ all_data[1][1][p].name = all_data[1][1][q].name
    /\ Len(final_df[1].cols) < Len(Collected(1))

NoSharedName(tables) ==
    \A m, n \in 1..Len(tables) : m # n =>
        \A p \in 1..Len(tables[m]) : \A q \in 1..Len(tables[n]) :
            tables[m][p].name # tables[n][q].name

\* C9 (as claimed): when no two collected tables share a column name the
\* returned table is their columns, table after table.
C9_DisjointTables ==
    \A s \in Sessions :
        (Done(s) /\ final_df[s].kind = "frame" /\ NoSharedName(all_data[s]))
            => final_df[s].cols = Collected(s)

\* C9 (amended): when no column name occurs twice among the collected tables,
\* neither in two tables nor in one, the returned table is their columns,
\* table after table; it never has the partial column; and a run of distinct
\* queries whose chunks all succeeded returns one column per query, in order.
C9_OrderPreserving ==
    \A s \in Sessions : (Done(s) /\ final_df[s].kind = "frame") =>
        LET res == final_df[s].cols IN
        /\ AllDistinct(Names(Collected(s))) => res = Collected(s)
        /\ \A m \in 1..Len(res) : res[m].name # isPartial
        /\ (AllOk(s) /\ AllDistinct(queries[s])) => Names(res) = queries[s]

C9_Witness ==
    /\ Done(1)
    /\ Len(all_data[1]) = 2
    /\ AllOk(1)
    /\ AllDistinct(queries[1])
    /\ Len(queries[1]) > chunk_size
    /\ Names(final_df[1].cols) = queries[1]

=============================================================================
